---- MODULE Spec2Model ----
(***************************************************************************)
(* Model of the resume optimizer (src/optimize_resume.py, src/main.py).    *)
(*                                                                         *)
(* Text is modelled at the granularity the code's regular expressions and  *)
(* substring tests see it: a line is a sequence of tokens, a token being a *)
(* maximal piece of text that the contact / URL patterns match or skip as  *)
(* a whole.  The separating blanks between tokens are not kept.  A blank   *)
(* line is the empty sequence.  The few sub-token facts the patterns       *)
(* expose (the URL pattern matching the domain inside an e-mail address,   *)
(* a catalog synonym occurring inside a heading) are given by the tables   *)
(* below.                                                                  *)
(***************************************************************************)
EXTENDS Integers, Sequences, FiniteSets, TLC

\* ------------------------------------------------------------------ bounds
\* Longest free input text, in lines, that match_parse is run on.
MaxLines == 4

\* Longest keyphrase list the extractor returns.
MaxKw == 2

\* Largest number of keywords with a positive deficit that to_count returns
\* when the sort and cut of analyze is run on its own.
MaxDeficits == 22

\* Most uploads accepted, and most responses sent, in a run of the server.
MaxUploads == 3

MaxRequests == 5

\* --------------------------------------------------------- class constants
SECTION_IDENTIFIERS ==
    << <<"about", "profile", "introduction", "summary", "objective">>,
       <<"education", "school", "academic">>,
       <<"qualification", "skill", "credential", "certification", "certificate">>,
       <<"experience", "history", "project", "work">> >>

SECTION_WEIGHTS ==
    [header |-> 1, education |-> 1, about |-> 2, qualification |-> 4, experience |-> 4]

\* Keys of CONTACT_REGEX in definition order
CONTACT_KEYS == <<"phone", "email">>

MAX_UNDERUSED == 20

\* MISSED_THRESHOLD, 0.7, as a fraction
MISSED_THRESHOLD == [n |-> 7, d |-> 10]

\* ------------------------------------------------------------- text tables
\* str.lower() of each token
Lower(tok) ==
    CASE tok = "John Doe"      -> "john doe"
      [] tok = "Experience"    -> "experience"
      [] tok = "Education"     -> "education"
      [] tok = "Summary"       -> "summary"
      [] tok = "Project summary" -> "project summary"
      [] tok = "Mail"          -> "mail"
      [] tok = "Built distributed systems using queues"
                               -> "built distributed systems using queues"
      [] tok = "Python"        -> "python"
      [] tok = "SQL"           -> "sql"
      [] OTHER                 -> tok

\* The catalog names that occur as substrings of a lower-cased token
CatalogNamesIn(low) ==
    CASE low = "experience"      -> {"experience"}
      [] low = "education"       -> {"education"}
      [] low = "summary"         -> {"summary"}
      [] low = "project summary" -> {"project", "summary"}
      [] OTHER                   -> {}

\* re.findall(CONTACT_REGEX[key], tok): the matches inside one token
ContactMatches(key, tok) ==
    CASE key = "phone" /\ tok = "555-123-4567"     -> <<"555-123-4567">>
      [] key = "email" /\ tok = "john@example.com" -> <<"john@example.com">>
      [] key = "email" /\ tok = "jd@mail.org"      -> <<"jd@mail.org">>
      [] OTHER                                     -> << >>

\* re.findall(URL_REGEX, tok): the URL pattern admits no "@", so inside an
\* e-mail address it matches the domain after the "@"
UrlMatches(tok) ==
    CASE tok = "example.com"      -> <<"example.com">>
      [] tok = "mail.org"         -> <<"mail.org">>
      [] tok = "john@example.com" -> <<"example.com">>
      [] tok = "jd@mail.org"      -> <<"mail.org">>
      [] OTHER                    -> << >>

\* re.match(CONTACT_REGEX["email"], s) succeeds
MatchesEmail(s) == ContactMatches("email", s) # << >>

\* s occurs as a substring of token tok
Occurs(s, tok) ==
    \/ s = tok
    \/ s = "example.com" /\ tok = "john@example.com"
    \/ s = "mail.org" /\ tok = "jd@mail.org"
    \/ s = "john@" /\ tok = "john@example.com"
    \/ s = "jd@" /\ tok = "jd@mail.org"

\* tok.replace(s, ""): what is left of one token; "" when nothing is left
ReplaceInToken(tok, s) ==
    CASE tok = s                                        -> ""
      [] tok = "john@example.com" /\ s = "example.com"  -> "john@"
      [] tok = "jd@mail.org" /\ s = "mail.org"          -> "jd@"
      [] OTHER                                          -> tok

\* len(re.findall(WORD_REGEX, tok)): the words of one token
WordCount(tok) ==
    CASE tok \in {"Python", "SQL", "Experience", "Education", "Summary", "Mail", "john@", "jd@"} -> 1
      [] tok \in {"John Doe", "Project summary", "example.com", "mail.org"} -> 2
      [] tok \in {"john@example.com", "jd@mail.org", "555-123-4567"} -> 3
      [] tok = "Built distributed systems using queues" -> 5
      [] OTHER -> 1

\* low.count(keyword) for a lower-cased token: the keyphrase terms of the
\* model occur only as whole tokens
TokenCount(keyword, low) == IF keyword = low THEN 1 ELSE 0

RECURSIVE Replace(_, _)
\* text.replace(s, "") on a line
Replace(text, s) ==
    IF text = << >> THEN << >>
    ELSE LET r == ReplaceInToken(Head(text), s)
         IN  IF r = "" THEN Replace(Tail(text), s)
             ELSE <<r>> \o Replace(Tail(text), s)

RECURSIVE FindAll(_, _)
\* re.findall(CONTACT_REGEX[key], text) on a line
FindAll(key, text) ==
    IF text = << >> THEN << >>
    ELSE ContactMatches(key, Head(text)) \o FindAll(key, Tail(text))

RECURSIVE FindUrls(_)
\* re.findall(URL_REGEX, text) on a line
FindUrls(text) ==
    IF text = << >> THEN << >>
    ELSE UrlMatches(Head(text)) \o FindUrls(Tail(text))

\* line.strip() is empty
IsBlank(line) == line = << >>

\* x in list
InSeq(x, s) == \E i \in 1..Len(s) : s[i] = x

\* ------------------------------------------------ ordered dict of sections
\* A Python dict of section name -> list of lines, in insertion order, is a
\* sequence of records [name, lines].
Keys(sections) == [i \in 1..Len(sections) |-> sections[i].name]

HasKey(sections, name) == \E i \in 1..Len(sections) : sections[i].name = name

Lines(sections, name) ==
    LET i == CHOOSE j \in 1..Len(sections) : sections[j].name = name
    IN  sections[i].lines

\* sections[name].append(text)
AppendLine(sections, name, text) ==
    [i \in 1..Len(sections) |->
        IF sections[i].name = name
        THEN [name |-> name, lines |-> Append(sections[i].lines, text)]
        ELSE sections[i]]

\* sections[name] = []
SetEmpty(sections, name) ==
    IF HasKey(sections, name)
    THEN [i \in 1..Len(sections) |->
            IF sections[i].name = name THEN [name |-> name, lines |-> << >>]
            ELSE sections[i]]
    ELSE Append(sections, [name |-> name, lines |-> << >>])

\* ----------------------------------------------------- ResumeOptimizer
\* any(name in text.lower() for name in section_names)
AnyNameIn(section_names, text) ==
    \E i \in 1..Len(section_names) : \E j \in 1..Len(text) :
        section_names[i] \in CatalogNamesIn(Lower(text[j]))

RECURSIVE MatchFrom(_, _, _)
MatchFrom(g, text, sections) ==
    IF g > Len(SECTION_IDENTIFIERS)
    THEN [matched_section |-> "None", sections |-> sections]
    ELSE LET section_names == SECTION_IDENTIFIERS[g]
         IN  IF /\ ~HasKey(sections, section_names[1])
                /\ AnyNameIn(section_names, text)
             THEN [matched_section |-> section_names[1],
                   sections |-> SetEmpty(sections, section_names[1])]
             ELSE MatchFrom(g + 1, text, sections)

RECURSIVE MatchFromReopen(_, _, _)
MatchFromReopen(g, text, sections) ==
    IF g > Len(SECTION_IDENTIFIERS)
    THEN [matched_section |-> "None", sections |-> sections]
    ELSE LET section_names == SECTION_IDENTIFIERS[g]
         IN  IF AnyNameIn(section_names, text)
             THEN [matched_section |-> section_names[1],
                   sections |-> SetEmpty(sections, section_names[1])]
             ELSE MatchFromReopen(g + 1, text, sections)

\* Mutant of MatchSection: the "not already a key" test is dropped
MatchSection_Reopen(text, sections) == MatchFromReopen(1, text, sections)

RECURSIVE MatchFromSynonym(_, _, _)
MatchFromSynonym(g, text, sections) ==
    IF g > Len(SECTION_IDENTIFIERS)
    THEN [matched_section |-> "None", sections |-> sections]
    ELSE LET section_names == SECTION_IDENTIFIERS[g]
             name == section_names[CHOOSE i \in 1..Len(section_names) :
                        /\ AnyNameIn(<<section_names[i]>>, text)
                        /\ \A j \in 1..(i - 1) : ~AnyNameIn(<<section_names[j]>>, text)]
         IN  IF /\ ~HasKey(sections, section_names[1])
                /\ AnyNameIn(section_names, text)
             THEN [matched_section |-> name, sections |-> SetEmpty(sections, name)]
             ELSE MatchFromSynonym(g + 1, text, sections)

\* Mutant of MatchSection: the section is keyed by the synonym found, not by
\* the group's first name
MatchSection_SynonymKey(text, sections) == MatchFromSynonym(1, text, sections)

\* __match_section(text, sections): the first unused group with a synonym in
\* the line; opens its section.  "None" when there is none.
MatchSection(text, sections) == MatchFrom(1, text, sections)

\* contact_info[key] = value
SetContact(contact_info, key, value) ==
    [k \in (DOMAIN contact_info) \cup {key} |->
        IF k = key THEN value ELSE contact_info[k]]

RECURSIVE RemoveKeys(_, _)
\* for key in found_keys: missing.remove(key)
RemoveKeys(missing, found_keys) ==
    IF missing = << >> THEN << >>
    ELSE IF InSeq(Head(missing), found_keys)
         THEN RemoveKeys(Tail(missing), found_keys)
         ELSE <<Head(missing)>> \o RemoveKeys(Tail(missing), found_keys)

RECURSIVE HeaderLoop(_, _, _, _, _)
\* the loop of __process_header over the keys missing on entry
HeaderLoop(index, missing, text, contact_info, found_keys) ==
    IF index > Len(missing)
    THEN [text |-> text, contact_info |-> contact_info, found_keys |-> found_keys]
    ELSE LET key == missing[index]
             matches == FindAll(key, text)
         IN  IF matches # << >>
             THEN HeaderLoop(index + 1, missing, Replace(text, matches[1]),
                             SetContact(contact_info, key, matches[1]),
                             Append(found_keys, key))
             ELSE HeaderLoop(index + 1, missing, text, contact_info, found_keys)

\* Mutant of ProcessHeader: every contact key is searched on every line, not
\* only the keys still missing
ProcessHeader_AllKeys(o, text) ==
    LET r == HeaderLoop(1, CONTACT_KEYS, text, o.contact_info, << >>)
    IN  [text |-> r.text,
         new_section |-> Cardinality(DOMAIN r.contact_info) > 0
                         /\ Len(r.found_keys) = 0,
         o |-> [o EXCEPT !.contact_info = r.contact_info,
                         !.missing_contact_info =
                             RemoveKeys(o.missing_contact_info, r.found_keys)]]

\* Mutant of ProcessHeader: the "header ended" flag is raised by every line
\* on which no field is found, also before any field was resolved
ProcessHeader_AlwaysSignal(o, text) ==
    IF Len(o.missing_contact_info) > 0
    THEN LET r == HeaderLoop(1, o.missing_contact_info, text, o.contact_info, << >>)
         IN  [text |-> r.text,
              new_section |-> Len(r.found_keys) = 0,
              o |-> [o EXCEPT !.contact_info = r.contact_info,
                              !.missing_contact_info =
                                  RemoveKeys(o.missing_contact_info, r.found_keys)]]
    ELSE [text |-> text, new_section |-> TRUE, o |-> o]

\* __process_header(text) on an optimizer o = [missing_contact_info,
\* contact_info, urls]: the stripped text, the "header ended" flag and the
\* optimizer afterwards
ProcessHeader(o, text) ==
    IF Len(o.missing_contact_info) > 0
    THEN LET r == HeaderLoop(1, o.missing_contact_info, text, o.contact_info, << >>)
         IN  [text |-> r.text,
              new_section |-> Cardinality(DOMAIN r.contact_info) > 0
                              /\ Len(r.found_keys) = 0,
              o |-> [o EXCEPT !.contact_info = r.contact_info,
                              !.missing_contact_info =
                                  RemoveKeys(o.missing_contact_info, r.found_keys)]]
    ELSE [text |-> text, new_section |-> TRUE, o |-> o]

RECURSIVE UrlLoop(_, _, _)
UrlLoop(url_matches, text, urls) ==
    IF url_matches = << >> THEN [text |-> text, urls |-> urls]
    ELSE LET url_match == Head(url_matches)
         IN  IF ~MatchesEmail(url_match) /\ ~InSeq(url_match, urls)
             THEN UrlLoop(Tail(url_matches), Replace(text, url_match),
                          Append(urls, url_match))
             ELSE UrlLoop(Tail(url_matches), text, urls)

RECURSIVE UrlLoopAll(_, _, _)
UrlLoopAll(url_matches, text, urls) ==
    IF url_matches = << >> THEN [text |-> text, urls |-> urls]
    ELSE LET url_match == Head(url_matches)
         IN  IF ~MatchesEmail(url_match)
             THEN UrlLoopAll(Tail(url_matches), Replace(text, url_match),
                             Append(urls, url_match))
             ELSE UrlLoopAll(Tail(url_matches), text, urls)

\* Mutant of ExtractUrls: a URL is appended whether or not it is already in
\* the list
ExtractUrls_NoDedupe(o, text) ==
    LET r == UrlLoopAll(FindUrls(text), text, o.urls)
    IN  [text |-> r.text, o |-> [o EXCEPT !.urls = r.urls]]

\* __extract_urls(text): the stripped text and the URL list afterwards
ExtractUrls(o, text) ==
    LET r == UrlLoop(FindUrls(text), text, o.urls)
    IN  [text |-> r.text, o |-> [o EXCEPT !.urls = r.urls]]

\* Mutant of ProcessedSections: every section's lines go through
\* __process_header
ProcessedSections_Every == {"header", "about", "education", "qualification", "experience"}

\* The section names whose lines go through __process_header
ProcessedSections == {"header", "about"}

\* Mutant of UpdateSections: a line left empty by the extraction is dropped
UpdateSections_SkipEmpty(o, text, current_section, sections) ==
    LET ph == IF current_section \in ProcessedSections
              THEN ProcessHeader(o, text)
              ELSE [text |-> text, new_section |-> FALSE, o |-> o]
        ms == IF current_section = "header" /\ ph.new_section
              THEN MatchSection(ph.text, sections)
              ELSE [matched_section |-> "None", sections |-> sections]
        eu == ExtractUrls(ph.o, ph.text)
    IN  IF ms.matched_section # "None"
        THEN [o |-> eu.o, current_section |-> ms.matched_section,
              sections |-> ms.sections]
        ELSE [o |-> eu.o, current_section |-> current_section,
              sections |-> IF eu.text = << >> THEN ms.sections
                           ELSE AppendLine(ms.sections, current_section, eu.text)]

\* Mutant of UpdateSections: URLs are extracted only where the contact step
\* runs
UpdateSections_UrlsHeaderOnly(o, text, current_section, sections) ==
    LET ph == IF current_section \in ProcessedSections
              THEN ProcessHeader(o, text)
              ELSE [text |-> text, new_section |-> FALSE, o |-> o]
        ms == IF current_section = "header" /\ ph.new_section
              THEN MatchSection(ph.text, sections)
              ELSE [matched_section |-> "None", sections |-> sections]
        eu == IF current_section \in ProcessedSections
              THEN ExtractUrls(ph.o, ph.text)
              ELSE [text |-> ph.text, o |-> ph.o]
    IN  IF ms.matched_section # "None"
        THEN [o |-> eu.o, current_section |-> ms.matched_section,
              sections |-> ms.sections]
        ELSE [o |-> eu.o, current_section |-> current_section,
              sections |-> AppendLine(ms.sections, current_section, eu.text)]

\* __update_sections(text, current_section, sections)
UpdateSections(o, text, current_section, sections) ==
    LET ph == IF current_section \in ProcessedSections
              THEN ProcessHeader(o, text)
              ELSE [text |-> text, new_section |-> FALSE, o |-> o]
        ms == IF current_section = "header" /\ ph.new_section
              THEN MatchSection(ph.text, sections)
              ELSE [matched_section |-> "None", sections |-> sections]
        eu == ExtractUrls(ph.o, ph.text)
    IN  IF ms.matched_section # "None"
        THEN [o |-> eu.o, current_section |-> ms.matched_section,
              sections |-> ms.sections]
        ELSE [o |-> eu.o, current_section |-> current_section,
              sections |-> AppendLine(ms.sections, current_section, eu.text)]

\* The optimizer's private attributes after __init__
NewOptimizer ==
    [missing_contact_info |-> CONTACT_KEYS,
     contact_info |-> [k \in {} |-> ""],
     urls |-> << >>]

\* The locals of match_parse before its loop
ParseStart ==
    [new_section |-> TRUE, current_section |-> "header",
     sections |-> << [name |-> "header", lines |-> << >>] >>]

\* Mutant of ParseLine: new_section is not cleared by a line that is no
\* heading, so the next line is tested as a heading too
ParseLine_KeepFlag(p, o, line, resume) ==
    IF IsBlank(line)
    THEN [p |-> [p EXCEPT !.new_section = TRUE], o |-> o]
    ELSE LET ms == IF p.new_section THEN MatchSection(line, p.sections)
                   ELSE [matched_section |-> "None", sections |-> p.sections]
         IN  IF ms.matched_section # "None"
             THEN [p |-> [new_section |-> FALSE,
                          current_section |-> ms.matched_section,
                          sections |-> ms.sections],
                   o |-> o]
             ELSE IF resume
                  THEN LET us == UpdateSections(o, line, p.current_section, ms.sections)
                       IN  [p |-> [new_section |-> p.new_section,
                                   current_section |-> us.current_section,
                                   sections |-> us.sections],
                            o |-> us.o]
                  ELSE [p |-> [new_section |-> p.new_section,
                               current_section |-> p.current_section,
                               sections |-> AppendLine(ms.sections, p.current_section, line)],
                        o |-> o]

\* Mutant of ParseLine: the is_resume flag is ignored, every body line goes
\* through __update_sections
ParseLine_AlwaysExtract(p, o, line, resume) ==
    IF IsBlank(line)
    THEN [p |-> [p EXCEPT !.new_section = TRUE], o |-> o]
    ELSE LET ms == IF p.new_section THEN MatchSection(line, p.sections)
                   ELSE [matched_section |-> "None", sections |-> p.sections]
         IN  IF ms.matched_section # "None"
             THEN [p |-> [new_section |-> FALSE,
                          current_section |-> ms.matched_section,
                          sections |-> ms.sections],
                   o |-> o]
             ELSE LET us == UpdateSections(o, line, p.current_section, ms.sections)
                  IN  [p |-> [new_section |-> FALSE,
                              current_section |-> us.current_section,
                              sections |-> us.sections],
                       o |-> us.o]

\* Mutant of ParseLine: a line consumed as a heading is also appended to the
\* section it opens
ParseLine_AppendHeading(p, o, line, resume) ==
    IF IsBlank(line)
    THEN [p |-> [p EXCEPT !.new_section = TRUE], o |-> o]
    ELSE LET ms == IF p.new_section THEN MatchSection(line, p.sections)
                   ELSE [matched_section |-> "None", sections |-> p.sections]
         IN  IF ms.matched_section # "None"
             THEN [p |-> [new_section |-> FALSE,
                          current_section |-> ms.matched_section,
                          sections |-> AppendLine(ms.sections, ms.matched_section, line)],
                   o |-> o]
             ELSE IF resume
                  THEN LET us == UpdateSections(o, line, p.current_section, ms.sections)
                       IN  [p |-> [new_section |-> FALSE,
                                   current_section |-> us.current_section,
                                   sections |-> us.sections],
                            o |-> us.o]
                  ELSE [p |-> [new_section |-> FALSE,
                               current_section |-> p.current_section,
                               sections |-> AppendLine(ms.sections, p.current_section, line)],
                        o |-> o]

\* One iteration of the loop of match_parse on p = [new_section,
\* current_section, sections] and the optimizer o
ParseLine(p, o, line, resume) ==
    IF IsBlank(line)
    THEN [p |-> [p EXCEPT !.new_section = TRUE], o |-> o]
    ELSE LET ms == IF p.new_section THEN MatchSection(line, p.sections)
                   ELSE [matched_section |-> "None", sections |-> p.sections]
         IN  IF ms.matched_section # "None"
             THEN [p |-> [new_section |-> FALSE,
                          current_section |-> ms.matched_section,
                          sections |-> ms.sections],
                   o |-> o]
             ELSE IF resume
                  THEN LET us == UpdateSections(o, line, p.current_section, ms.sections)
                       IN  [p |-> [new_section |-> FALSE,
                                   current_section |-> us.current_section,
                                   sections |-> us.sections],
                            o |-> us.o]
                  ELSE [p |-> [new_section |-> FALSE,
                               current_section |-> p.current_section,
                               sections |-> AppendLine(ms.sections, p.current_section, line)],
                        o |-> o]

RECURSIVE ParseFrom(_, _, _, _)
\* the loop of match_parse; each iteration's result is bound once
ParseFrom(p, o, lines, resume) ==
    IF lines = << >> THEN [sections |-> p.sections, o |-> o]
    ELSE CHOOSE result \in
            { ParseFrom(r.p, r.o, Tail(lines), resume) :
                r \in {ParseLine(p, o, Head(lines), resume)} } : TRUE

\* match_parse(parse_string, is_resume) as a whole: the returned sections and
\* the optimizer afterwards
MatchParse(o, parse_string, resume) == ParseFrom(ParseStart, o, parse_string, resume)

\* --------------------------------------------------------------- fractions
\* Python's float results are kept as exact fractions [n, d] with d > 0.
RECURSIVE Gcd(_, _)
Gcd(a, b) == IF b = 0 THEN a ELSE Gcd(b, a % b)

Abs(x) == IF x < 0 THEN -x ELSE x

Frac(n, d) ==
    LET g == Gcd(Abs(n), d)
    IN  IF n = 0 THEN [n |-> 0, d |-> 1] ELSE [n |-> n \div g, d |-> d \div g]

FracOf(i) == [n |-> i, d |-> 1]
FracAdd(a, b) == Frac(a.n * b.d + b.n * a.d, a.d * b.d)
FracLess(a, b) == a.n * b.d < b.n * a.d
\* a / b for b > 0
FracDiv(a, b) == Frac(a.n * b.d, a.d * b.n)

\* round(n / d), d > 0: Python rounds a half to the even neighbour
Round(n, d) ==
    LET q == n \div d
        r == n - q * d
    IN  IF 2 * r < d THEN q
        ELSE IF 2 * r > d THEN q + 1
        ELSE IF q % 2 = 0 THEN q ELSE q + 1

\* ------------------------------------------------- ordered dict of keywords
\* A Python dict keyword -> value, in insertion order, is a sequence of
\* records [k, v].
DictHas(d, k) == \E i \in 1..Len(d) : d[i].k = k

\* d[k] = v
DictSet(d, k, v) ==
    IF DictHas(d, k)
    THEN [i \in 1..Len(d) |-> IF d[i].k = k THEN [k |-> k, v |-> v] ELSE d[i]]
    ELSE Append(d, [k |-> k, v |-> v])

RECURSIVE SumFrac(_)
\* sum(d.values())
SumFrac(d) == IF d = << >> THEN FracOf(0) ELSE FracAdd(Head(d).v, SumFrac(Tail(d)))

\* ---------------------------------------------------------- CompareResume
RECURSIVE CountInLine(_, _)
CountInLine(keyword, line) ==
    IF line = << >> THEN 0
    ELSE TokenCount(keyword, Lower(Head(line))) + CountInLine(keyword, Tail(line))

RECURSIVE CountIn(_, _)
\* string.lower().count(keyword), the string given as its lines
CountIn(keyword, string) ==
    IF string = << >> THEN 0
    ELSE CountInLine(keyword, Head(string)) + CountIn(keyword, Tail(string))

RECURSIVE WordsInLine(_)
WordsInLine(line) ==
    IF line = << >> THEN 0 ELSE WordCount(Head(line)) + WordsInLine(Tail(line))

RECURSIVE WordsIn(_)
\* len(re.findall(WORD_REGEX, string.lower()))
WordsIn(string) ==
    IF string = << >> THEN 0 ELSE WordsInLine(Head(string)) + WordsIn(Tail(string))

\* list.index(x): the first position holding x, 0 when there is none
IndexOf(list, x) ==
    IF \E i \in 1..Len(list) : list[i] = x
    THEN CHOOSE i \in 1..Len(list) : list[i] = x /\ \A j \in 1..(i - 1) : list[j] # x
    ELSE 0

RECURSIVE SumScores(_)
SumScores(keywords) ==
    IF keywords = << >> THEN 0 ELSE Head(keywords).v + SumScores(Tail(keywords))

RECURSIVE CompareLoop(_, _, _, _)
\* the matching loop of compare() over the resume keyphrases; acc holds
\* job_keyword_text, matches, match_points and max_points
CompareLoop(resume_kw, job_kw, i, acc) ==
    IF i > Len(resume_kw) THEN acc
    ELSE LET kt == resume_kw[i]
             match_index == IndexOf(acc.job_keyword_text, kt.k)
         IN  IF match_index # 0
             THEN LET match_value == kt.v + job_kw[match_index].v
                  IN  CompareLoop(resume_kw, job_kw, i + 1,
                        [job_keyword_text |->
                            [acc.job_keyword_text EXCEPT ![match_index] = "False"],
                         matches |-> DictSet(acc.matches, kt.k, match_value),
                         match_points |-> acc.match_points + match_value,
                         max_points |-> acc.max_points + kt.v])
             ELSE CompareLoop(resume_kw, job_kw, i + 1, acc)

RECURSIVE CompareLoopNoConsume(_, _, _, _)
CompareLoopNoConsume(resume_kw, job_kw, i, acc) ==
    IF i > Len(resume_kw) THEN acc
    ELSE LET kt == resume_kw[i]
             match_index == IndexOf(acc.job_keyword_text, kt.k)
         IN  IF match_index # 0
             THEN LET match_value == kt.v + job_kw[match_index].v
                  IN  CompareLoopNoConsume(resume_kw, job_kw, i + 1,
                        [job_keyword_text |-> acc.job_keyword_text,
                         matches |-> DictSet(acc.matches, kt.k, match_value),
                         match_points |-> acc.match_points + match_value,
                         max_points |-> acc.max_points + kt.v])
             ELSE CompareLoopNoConsume(resume_kw, job_kw, i + 1, acc)

\* Mutant of Compare: a matched job position is not marked, so it can be
\* matched again
Compare_NoConsume(resume_kw, job_kw) ==
    LET r == CompareLoopNoConsume(resume_kw, job_kw, 1,
                [job_keyword_text |-> [i \in 1..Len(job_kw) |-> job_kw[i].k],
                 matches |-> << >>,
                 match_points |-> 0,
                 max_points |-> SumScores(job_kw)])
    IN  [matches |-> r.matches,
         match_points |-> r.match_points,
         max_points |-> Frac(r.max_points, 2),
         job_keyword_text |-> r.job_keyword_text]

\* compare() on the two keyphrase lists the extractor returned: matches,
\* match_points and max_points
Compare(resume_kw, job_kw) ==
    LET r == CompareLoop(resume_kw, job_kw, 1,
                [job_keyword_text |-> [i \in 1..Len(job_kw) |-> job_kw[i].k],
                 matches |-> << >>,
                 match_points |-> 0,
                 max_points |-> SumScores(job_kw)])
    IN  [matches |-> r.matches,
         match_points |-> r.match_points,
         max_points |-> Frac(r.max_points, 2),
         job_keyword_text |-> r.job_keyword_text]

RECURSIVE MissedFrom(_, _, _)
MissedFrom(resume_kw, job_kw, i) ==
    IF i = 0 THEN << >>
    ELSE LET d == MissedFrom(resume_kw, job_kw, i - 1)
         IN  IF DictHas(resume_kw, job_kw[i].k) THEN d
             ELSE DictSet(d, job_kw[i].k, job_kw[i].v)

\* Mutant of MissedKeywords: every job keyphrase is recorded, matched or not
MissedKeywords_AllJob(resume_kw, job_kw) == MissedFrom(<< >>, job_kw, Len(job_kw))

\* missed_keywords: the job keyphrases whose term is no resume keyphrase
MissedKeywords(resume_kw, job_kw) == MissedFrom(resume_kw, job_kw, Len(job_kw))

RECURSIVE CountLoop(_, _, _, _)
CountLoop(keywords_dict, resume_string, job_string, i) ==
    IF i = 0 THEN << >>
    ELSE LET d == CountLoop(keywords_dict, resume_string, job_string, i - 1)
             keyword == keywords_dict[i].k
             rw == WordsIn(resume_string)
             jw == WordsIn(job_string)
             \* job_count - resume_count * (jw / rw) over the denominator rw
             difference == Round(CountIn(keyword, job_string) * rw
                                   - CountIn(keyword, resume_string) * jw, rw)
         IN  IF difference > 0 THEN DictSet(d, keyword, difference) ELSE d

\* Mutant of ToCount: every keyword is recorded with its rounded difference,
\* whatever its sign
ToCount_Unfiltered(keywords_dict, resume_string, job_string) ==
    LET rw == WordsIn(resume_string)
        jw == WordsIn(job_string)
    IN  IF rw = 0
        THEN [error |-> "ZeroDivisionError", dict |-> << >>]
        ELSE [error |-> "None",
              dict |-> [i \in 1..Len(keywords_dict) |->
                          [k |-> keywords_dict[i].k,
                           v |-> Round(CountIn(keywords_dict[i].k, job_string) * rw
                                       - CountIn(keywords_dict[i].k, resume_string) * jw,
                                       rw)]]]

\* to_count(keywords_dict) of a CompareResume holding the two strings; the
\* ratio's division raises when the resume string has no word
ToCount(keywords_dict, resume_string, job_string) ==
    IF WordsIn(resume_string) = 0
    THEN [error |-> "ZeroDivisionError", dict |-> << >>]
    ELSE [error |-> "None",
          dict |-> CountLoop(keywords_dict, resume_string, job_string, Len(keywords_dict))]

\* ------------------------------------------------ ResumeOptimizer.analyze
RECURSIVE JoinSections(_, _)
JoinSections(parse_results, keys) ==
    IF keys = << >> THEN << >>
    ELSE Lines(parse_results, Head(keys)) \o JoinSections(parse_results, Tail(keys))

\* get_compare_string(parse_results, keys): the string as its lines; an
\* empty or absent keys argument selects every section
GetCompareString(parse_results, keys) ==
    JoinSections(parse_results, IF keys # << >> THEN keys ELSE Keys(parse_results))

\* The sections with content, in dict order
NonEmpty(sections) == SelectSeq(sections, LAMBDA sec : Len(sec.lines) > 0)

RECURSIVE SectionSum(_, _, _)
\* sum over the sections with content of weight * value * section_count,
\* the common factor 1 / total_count left out
SectionSum(secs, keyword, value) ==
    IF secs = << >> THEN 0
    ELSE SECTION_WEIGHTS[Head(secs).name] * value * CountIn(keyword, Head(secs).lines)
         + SectionSum(Tail(secs), keyword, value)

RECURSIVE TotalWeight(_, _)
\* the weights of the sections with content in which some keyword occurs
TotalWeight(secs, keyword_values) ==
    IF secs = << >> THEN 0
    ELSE (IF \E i \in 1..Len(keyword_values) :
                CountIn(keyword_values[i].k, Head(secs).lines) > 0
          THEN SECTION_WEIGHTS[Head(secs).name] ELSE 0)
         + TotalWeight(Tail(secs), keyword_values)

\* Mutant of ApplyWeights: the weighted dict starts from 0, not from a copy
\* of keyword_values
ApplyWeights_FromZero(sections, keyword_values) ==
    LET secs == NonEmpty(sections)
        compare_string == GetCompareString(sections, << >>)
        total_weight == TotalWeight(secs, keyword_values)
        Weighted(kv) ==
            LET total_count == CountIn(kv.k, compare_string)
                tc == IF total_count = 0 THEN 1 ELSE total_count
            IN  Frac(SectionSum(secs, kv.k, kv.v), tc * total_weight)
    IN  IF keyword_values # << >> /\ total_weight = 0
        THEN [error |-> "ZeroDivisionError", dict |-> << >>]
        ELSE [error |-> "None",
              dict |-> [i \in 1..Len(keyword_values) |->
                          [k |-> keyword_values[i].k, v |-> Weighted(keyword_values[i])]]]

\* apply_weights(sections, keyword_values): the weighted dict, or the error
\* of dividing by a total weight of 0
ApplyWeights(sections, keyword_values) ==
    LET secs == NonEmpty(sections)
        compare_string == GetCompareString(sections, << >>)
        total_weight == TotalWeight(secs, keyword_values)
        Weighted(kv) ==
            LET total_count == CountIn(kv.k, compare_string)
                tc == IF total_count = 0 THEN 1 ELSE total_count
            IN  Frac(kv.v * tc + SectionSum(secs, kv.k, kv.v), tc * total_weight)
    IN  IF keyword_values # << >> /\ total_weight = 0
        THEN [error |-> "ZeroDivisionError", dict |-> << >>]
        ELSE [error |-> "None",
              dict |-> [i \in 1..Len(keyword_values) |->
                          [k |-> keyword_values[i].k, v |-> Weighted(keyword_values[i])]]]

\* Mutant of ParsingResults: a section counts as parsed once it is a key,
\* with or without content
ParsingResults_Opened(parsed_dict) ==
    LET parsed_sections == Keys(parsed_dict)
        canonical == [g \in 1..Len(SECTION_IDENTIFIERS) |-> SECTION_IDENTIFIERS[g][1]]
        found == SelectSeq(canonical, LAMBDA sec : InSeq(sec, parsed_sections))
        missed == SelectSeq(canonical, LAMBDA sec : ~InSeq(sec, parsed_sections))
        Sum[i \in 0..Len(canonical)] ==
            IF i = 0 THEN [max |-> 0, score |-> 0]
            ELSE [max |-> Sum[i - 1].max + SECTION_WEIGHTS[canonical[i]],
                  score |-> Sum[i - 1].score
                            + IF InSeq(canonical[i], parsed_sections)
                              THEN SECTION_WEIGHTS[canonical[i]] ELSE 0]
    IN  [max_score |-> Sum[Len(canonical)].max,
         parsing_score |-> Sum[Len(canonical)].score,
         missed_sections |-> missed,
         found_sections |-> found]

\* parsing_results(parsed_dict)
ParsingResults(parsed_dict) ==
    LET parsed_sections == Keys(NonEmpty(parsed_dict))
        canonical == [g \in 1..Len(SECTION_IDENTIFIERS) |-> SECTION_IDENTIFIERS[g][1]]
        found == SelectSeq(canonical, LAMBDA sec : InSeq(sec, parsed_sections))
        missed == SelectSeq(canonical, LAMBDA sec : ~InSeq(sec, parsed_sections))
        Sum[i \in 0..Len(canonical)] ==
            IF i = 0 THEN [max |-> 0, score |-> 0]
            ELSE [max |-> Sum[i - 1].max + SECTION_WEIGHTS[canonical[i]],
                  score |-> Sum[i - 1].score
                            + IF InSeq(canonical[i], parsed_sections)
                              THEN SECTION_WEIGHTS[canonical[i]] ELSE 0]
    IN  [max_score |-> Sum[Len(canonical)].max,
         parsing_score |-> Sum[Len(canonical)].score,
         missed_sections |-> missed,
         found_sections |-> found]

\* Mutant of MatchPercentage: the score is the net share
\* (matched - missed) / (matched + missed)
MatchPercentage_Net(matched_total, missed_total) ==
    LET net == FracAdd(missed_total, matched_total)
    IN  IF FracLess(FracOf(0), net)
        THEN FracDiv(FracAdd(matched_total, [n |-> -missed_total.n, d |-> missed_total.d]), net)
        ELSE FracOf(0)

\* Mutant of MatchPercentage: the degenerate case, no positive total, scores 1
MatchPercentage_DegenerateOne(matched_total, missed_total) ==
    LET net == FracAdd(missed_total, matched_total)
    IN  IF FracLess(matched_total, missed_total)
        THEN FracOf(1)
        ELSE IF FracLess(FracOf(0), net)
             THEN FracDiv(matched_total, net)
             ELSE FracOf(1)

\* Mutant of MatchPercentage: the score is always the matched share of the
\* two totals
MatchPercentage_Share(matched_total, missed_total) ==
    LET net == FracAdd(missed_total, matched_total)
    IN  IF FracLess(FracOf(0), net) THEN FracDiv(matched_total, net) ELSE FracOf(0)

\* The final score of analyze from the two weighted totals
MatchPercentage(matched_total, missed_total) ==
    LET net == FracAdd(missed_total, matched_total)
    IN  IF FracLess(matched_total, missed_total)
        THEN FracDiv(matched_total, missed_total)
        ELSE IF FracLess(FracOf(0), net)
             THEN FracDiv(matched_total, net)
             ELSE FracOf(0)

RECURSIVE SortedDesc(_)
\* sorted(items, key = value, reverse = True): stable, equal values keep
\* their order
SortedDesc(items) ==
    IF items = << >> THEN << >>
    ELSE LET x == items[Len(items)]
         IN  CHOOSE sorted \in
                { SelectSeq(rest, LAMBDA e : e.v >= x.v) \o <<x>>
                    \o SelectSeq(rest, LAMBDA e : e.v < x.v) :
                  rest \in {SortedDesc(SubSeq(items, 1, Len(items) - 1))} } : TRUE

\* Mutant of Islice: the last n items are kept
Islice_Tail(items, n) ==
    SubSeq(items, IF Len(items) < n THEN 1 ELSE Len(items) - n + 1, Len(items))

\* dict(itertools.islice(items, min(len(items), n)))
Islice(items, n) == SubSeq(items, 1, IF Len(items) < n THEN Len(items) ELSE n)

\* ------------------------------------------------------------------- state
VARIABLES
    pc,                   \* where the run is
    is_resume,            \* match_parse's flag
    lines_read,           \* the lines of parse_string consumed so far
    new_section, current_section, sections,    \* match_parse's locals
    missing_contact_info, contact_info, urls,  \* the optimizer's attributes
    resume_string, job_string,                 \* the optimizer's two texts, as lines
    resume_sections, job_sections, parsing_results,   \* analyze's locals
    resume_compare, job_compare,               \* the comparator's two strings
    resume_keywords, job_keywords,             \* what the extractor returned
    job_keyword_text,                          \* compare()'s list of job terms
    matches, match_points, missed_keywords,    \* the comparator's results
    matched_weighted, missed_weighted,
    match_percentage,
    keyword_counts,                            \* what to_count returned
    underused,
    error,                                     \* the exception analyze ended with
    resume_storage,       \* main.py: the file ids that hold a stored resume
    issued,               \* the number of ids uuid4() has produced
    reading,              \* the uploads suspended at "await file.read"
    analyze_calls,        \* the file ids whose resume was handed to analyze(), in order
    response              \* the last response sent

parse_vars == <<is_resume, lines_read, new_section, current_section, sections>>

optimizer_vars == <<missing_contact_info, contact_info, urls>>

analyze_vars == <<resume_string, job_string, resume_sections, job_sections,
                  parsing_results, resume_compare, job_compare, resume_keywords,
                  job_keywords, job_keyword_text, matches, match_points,
                  missed_keywords, matched_weighted,
                  missed_weighted, match_percentage, keyword_counts, underused,
                  error>>

server_vars == <<resume_storage, issued, reading, analyze_calls, response>>

vars == <<pc, parse_vars, optimizer_vars, analyze_vars, server_vars>>

\* The lines match_parse is fed
LineSet ==
    { << >>,
      <<"John Doe">>,
      <<"john@example.com">>,
      <<"Experience">>,
      <<"Built distributed systems using queues">>,
      <<"Summary">>,
      <<"555-123-4567">>,
      <<"example.com">>,
      <<"Mail", "jd@mail.org">>,
      <<"example.com", "mail.org">>,
      <<"Project summary">> }

\* The candidate text of the documented scenario
ScenarioLines ==
    << <<"John Doe">>, <<"john@example.com">>, << >>, <<"Experience">>,
       <<"Built distributed systems using queues">>, << >> >>

IsPrefix(s, t) == Len(s) <= Len(t) /\ \A i \in 1..Len(s) : s[i] = t[i]

\* The input texts explored: every text of at most MaxLines lines, and the
\* scenario text
Admissible(text) == Len(text) <= MaxLines \/ IsPrefix(text, ScenarioLines)

Optimizer == [missing_contact_info |-> missing_contact_info,
              contact_info |-> contact_info, urls |-> urls]

Locals == [new_section |-> new_section, current_section |-> current_section,
           sections |-> sections]

\* No request has been served: resume_storage is empty
ServerIdle ==
    /\ resume_storage = {}
    /\ issued = 0
    /\ reading = 0
    /\ analyze_calls = << >>
    /\ response = [n |-> 0, request |-> "None", file_id |-> 0, status |-> 0,
                   detail |-> ""]

\* The optimizer after its resume was segmented: analyze segments the job
\* description on the optimizer that has segmented the resume before
UsedOptimizer ==
    MatchParse(NewOptimizer, << <<"john@example.com">>, <<"example.com">> >>, TRUE).o

\* analyze has not been called: its locals hold nothing
AnalyzeIdle ==
    /\ resume_string = << >> /\ job_string = << >>
    /\ resume_sections = << >> /\ job_sections = << >>
    /\ parsing_results = ParsingResults(<< >>)
    /\ resume_compare = << >> /\ job_compare = << >>
    /\ resume_keywords = << >> /\ job_keywords = << >>
    /\ job_keyword_text = << >>
    /\ matches = << >> /\ match_points = 0 /\ missed_keywords = << >>
    /\ matched_weighted = << >> /\ missed_weighted = << >>
    /\ match_percentage = FracOf(0) /\ keyword_counts = << >> /\ underused = << >>
    /\ error = "None"

ParseInit ==
    /\ pc = "parsing"
    /\ is_resume \in BOOLEAN
    /\ lines_read = << >>
    /\ new_section = ParseStart.new_section
    /\ current_section = ParseStart.current_section
    /\ sections = ParseStart.sections
    /\ \E o \in (IF is_resume THEN {NewOptimizer} ELSE {NewOptimizer, UsedOptimizer}) :
          /\ missing_contact_info = o.missing_contact_info
          /\ contact_info = o.contact_info
          /\ urls = o.urls
    /\ AnalyzeIdle
    /\ ServerIdle

\* match_parse reads the next line of parse_string
ReadLine ==
    /\ pc = "parsing"
    /\ \E line \in LineSet :
        /\ Admissible(Append(lines_read, line))
        /\ lines_read' = Append(lines_read, line)
        /\ \E r \in {ParseLine(Locals, Optimizer, line, is_resume)} :
               /\ new_section' = r.p.new_section
               /\ current_section' = r.p.current_section
               /\ sections' = r.p.sections
               /\ missing_contact_info' = r.o.missing_contact_info
               /\ contact_info' = r.o.contact_info
               /\ urls' = r.o.urls
    /\ UNCHANGED <<pc, is_resume, analyze_vars, server_vars>>

\* parse_string is exhausted: match_parse returns sections
ReturnSections ==
    /\ pc = "parsing"
    /\ pc' = "parsed"
    /\ UNCHANGED <<parse_vars, optimizer_vars, analyze_vars, server_vars>>

ParseNext == ReadLine \/ ReturnSections

SpecParse == ParseInit /\ [][ParseNext]_vars

\* ------------------------------------------------------------ analyze()
\* The resume texts analyze is run on, as the lines of resume_string: the
\* constructor puts a line break before every block of the document
ResumeDocs ==
    { << >>,
      << << >>, <<"John Doe">>, <<"Python">> >>,
      << << >>, <<"John Doe">>, << >>, <<"Experience">> >>,
      << << >>, <<"John Doe">>, <<"john@example.com">>, << >>, <<"Experience">>,
         <<"Python">>, <<"SQL">> >>,
      << << >>, <<"John Doe">>, << >>, <<"Experience">>,
         <<"Built distributed systems using queues">> >>,
      << << >>, <<"John Doe">>, << >>, <<"Summary">>, <<"Python">>, << >>,
         <<"Education">>, << >>, <<"Experience">>, <<"SQL">> >> }

\* The job descriptions analyze is run on, as lines
JobDocs ==
    { << <<"Python">> >>,
      << <<"Experience">> >>,
      << <<"SQL">>, << >>, <<"Summary">>, <<"Python">> >>,
      << <<"Python">>, << >>, <<"Education">>, <<"SQL">> >>,
      << <<"Python">>, << >>, <<"Experience">>, <<"Python">>, <<"SQL">> >> }

\* The keyphrases the extractor may return: any list of (term, score) pairs
Terms == {"python", "sql"}
ResumeScores == {1}
JobScores == {0, 1, 2}

KeyphraseLists(scores) ==
    UNION { [1..n -> [k : Terms, v : scores]] : n \in 0..MaxKw }

AnalyzeInit ==
    /\ pc = "segment"
    /\ is_resume = FALSE
    /\ lines_read = << >>
    /\ new_section = ParseStart.new_section
    /\ current_section = ParseStart.current_section
    /\ sections = ParseStart.sections
    /\ missing_contact_info = NewOptimizer.missing_contact_info
    /\ contact_info = NewOptimizer.contact_info
    /\ urls = NewOptimizer.urls
    /\ resume_string \in ResumeDocs
    /\ job_string \in JobDocs
    /\ resume_sections = << >> /\ job_sections = << >>
    /\ parsing_results = ParsingResults(<< >>)
    /\ resume_compare = << >> /\ job_compare = << >>
    /\ resume_keywords = << >> /\ job_keywords = << >>
    /\ job_keyword_text = << >>
    /\ matches = << >> /\ match_points = 0 /\ missed_keywords = << >>
    /\ matched_weighted = << >> /\ missed_weighted = << >>
    /\ match_percentage = FracOf(0) /\ keyword_counts = << >> /\ underused = << >>
    /\ error = "None"
    /\ ServerIdle

\* analyze: both texts are segmented and the parsing results taken
Segment ==
    /\ pc = "segment"
    /\ \E rs \in {MatchParse(Optimizer, resume_string, TRUE)} :
       \E js \in {MatchParse(rs.o, job_string, FALSE)} :
           /\ resume_sections' = rs.sections
           /\ job_sections' = js.sections
           /\ missing_contact_info' = js.o.missing_contact_info
           /\ contact_info' = js.o.contact_info
           /\ urls' = js.o.urls
           /\ parsing_results' = ParsingResults(rs.sections)
    /\ pc' = "compare"
    /\ UNCHANGED <<parse_vars, resume_string, job_string, resume_compare, job_compare,
                   resume_keywords, job_keywords, job_keyword_text, matches,
                   match_points, missed_keywords,
                   matched_weighted, missed_weighted, match_percentage,
                   keyword_counts, underused, error, server_vars>>

\* The candidate's comparison string: the sections after the first key
ResumeCompareString(parsed) == GetCompareString(parsed, Tail(Keys(parsed)))

\* analyze: the comparator is built on the two comparison strings, the
\* extractor returns a keyphrase list for each, and compare() runs
CompareStep ==
    /\ pc = "compare"
    /\ resume_compare' = ResumeCompareString(resume_sections)
    /\ job_compare' = GetCompareString(job_sections, << >>)
    /\ \E rk \in KeyphraseLists(ResumeScores), jk \in KeyphraseLists(JobScores) :
        /\ resume_keywords' = rk
        /\ job_keywords' = jk
        /\ \E c \in {Compare(rk, jk)} :
               /\ matches' = c.matches
               /\ match_points' = c.match_points
               /\ job_keyword_text' = c.job_keyword_text
        /\ missed_keywords' = MissedKeywords(rk, jk)
    /\ pc' = "weight"
    /\ UNCHANGED <<parse_vars, optimizer_vars, resume_string, job_string,
                   resume_sections, job_sections, parsing_results, matched_weighted,
                   missed_weighted, match_percentage, keyword_counts, underused,
                   error, server_vars>>

\* analyze: apply_weights on the matches and on the missed keywords
Weight ==
    /\ pc = "weight"
    /\ \E mw \in {ApplyWeights(job_sections, matches)} :
       \E sw \in {ApplyWeights(job_sections, missed_keywords)} :
           IF mw.error # "None" \/ sw.error # "None"
           THEN /\ error' = "ZeroDivisionError"
                /\ pc' = "failed"
                /\ UNCHANGED <<matched_weighted, missed_weighted>>
           ELSE /\ matched_weighted' = mw.dict
                /\ missed_weighted' = sw.dict
                /\ pc' = "score"
                /\ UNCHANGED error
    /\ UNCHANGED <<parse_vars, optimizer_vars, resume_string, job_string,
                   resume_sections, job_sections, parsing_results, resume_compare,
                   job_compare, resume_keywords, job_keywords, job_keyword_text,
                   matches, match_points,
                   missed_keywords, match_percentage, keyword_counts, underused,
                   server_vars>>

\* analyze: the final score
Score ==
    /\ pc = "score"
    /\ match_percentage' =
         MatchPercentage(SumFrac(matched_weighted), SumFrac(missed_weighted))
    /\ pc' = "report"
    /\ UNCHANGED <<parse_vars, optimizer_vars, resume_string, job_string,
                   resume_sections, job_sections, parsing_results, resume_compare,
                   job_compare, resume_keywords, job_keywords, job_keyword_text,
                   matches, match_points,
                   missed_keywords, matched_weighted, missed_weighted,
                   keyword_counts, underused, error, server_vars>>

\* analyze: the deficits of the matched or of the missed keywords, sorted and
\* cut, and the report returned
Report ==
    /\ pc = "report"
    /\ \E tc \in {ToCount(IF ~FracLess(match_percentage, MISSED_THRESHOLD)
                             THEN matched_weighted ELSE missed_weighted,
                          resume_compare, job_compare)} :
           IF tc.error # "None"
           THEN /\ error' = tc.error
                /\ pc' = "failed"
                /\ UNCHANGED <<keyword_counts, underused>>
           ELSE /\ keyword_counts' = tc.dict
                /\ underused' = Islice(SortedDesc(tc.dict), MAX_UNDERUSED)
                /\ pc' = "done"
                /\ UNCHANGED error
    /\ UNCHANGED <<parse_vars, optimizer_vars, resume_string, job_string,
                   resume_sections, job_sections, parsing_results, resume_compare,
                   job_compare, resume_keywords, job_keywords, job_keyword_text,
                   matches, match_points,
                   missed_keywords, matched_weighted, missed_weighted,
                   match_percentage, server_vars>>

AnalyzeNext == Segment \/ CompareStep \/ Weight \/ Score \/ Report

SpecAnalyze == AnalyzeInit /\ [][AnalyzeNext]_vars

\* ------------------------------------------- analyze(): the sort and cut
\* The dicts to_count may return: keywords, numbered in insertion order, with
\* positive deficits that are constant or cycle through up to three values
DeficitDicts ==
    { [i \in 1..n |-> [k |-> i, v |-> 1 + ((a * i + b) % m)]] :
        n \in 0..MaxDeficits, a \in 0..2, b \in 0..2, m \in 1..3 }

UnderusedInit ==
    /\ pc = "sort"
    /\ is_resume = FALSE
    /\ lines_read = << >>
    /\ new_section = ParseStart.new_section
    /\ current_section = ParseStart.current_section
    /\ sections = ParseStart.sections
    /\ missing_contact_info = NewOptimizer.missing_contact_info
    /\ contact_info = NewOptimizer.contact_info
    /\ urls = NewOptimizer.urls
    /\ resume_string = << >> /\ job_string = << >>
    /\ resume_sections = << >> /\ job_sections = << >>
    /\ parsing_results = ParsingResults(<< >>)
    /\ resume_compare = << >> /\ job_compare = << >>
    /\ resume_keywords = << >> /\ job_keywords = << >>
    /\ job_keyword_text = << >>
    /\ matches = << >> /\ match_points = 0 /\ missed_keywords = << >>
    /\ matched_weighted = << >> /\ missed_weighted = << >>
    /\ match_percentage = FracOf(0)
    /\ keyword_counts \in DeficitDicts
    /\ underused = << >>
    /\ error = "None"
    /\ ServerIdle

\* analyze: the deficits are sorted from high to low and cut to MAX_UNDERUSED
SortUnderused ==
    /\ pc = "sort"
    /\ underused' = Islice(SortedDesc(keyword_counts), MAX_UNDERUSED)
    /\ pc' = "sorted"
    /\ UNCHANGED <<parse_vars, optimizer_vars, resume_string, job_string,
                   resume_sections, job_sections, parsing_results, resume_compare,
                   job_compare, resume_keywords, job_keywords, job_keyword_text,
                   matches, match_points, missed_keywords, matched_weighted,
                   missed_weighted, match_percentage, keyword_counts, error,
                   server_vars>>

UnderusedNext == SortUnderused

SpecUnderused == UnderusedInit /\ [][UnderusedNext]_vars

\* ------------------------------------------------------ main.py: the server
\* Mutant of Pop: the entry is read and left in resume_storage
Pop_Keep(storage, file_id) == storage

\* resume_storage.pop(file_id): the storage afterwards
Pop(storage, file_id) == storage \ {file_id}

\* The file ids a client may ask for: those uuid4() can have produced, and one
\* it never produces
FileIds == 1..(MaxUploads + 1)

Respond(request, file_id, status, detail) ==
    [n |-> response.n + 1, request |-> request, file_id |-> file_id,
     status |-> status, detail |-> detail]

ServerInit ==
    /\ pc = "serving"
    /\ is_resume = FALSE
    /\ lines_read = << >>
    /\ new_section = ParseStart.new_section
    /\ current_section = ParseStart.current_section
    /\ sections = ParseStart.sections
    /\ missing_contact_info = NewOptimizer.missing_contact_info
    /\ contact_info = NewOptimizer.contact_info
    /\ urls = NewOptimizer.urls
    /\ AnalyzeIdle
    /\ ServerIdle

\* create_upload_file: the content type or the size is refused with 403
RejectUpload ==
    /\ response.n < MaxRequests
    /\ \E detail \in {"Invalid file type", "Resume file is too large (maximum 2mb)"} :
          response' = Respond("upload", 0, 403, detail)
    /\ UNCHANGED <<pc, parse_vars, optimizer_vars, analyze_vars, resume_storage,
                   issued, reading, analyze_calls>>

\* create_upload_file: both validations pass and the handler is suspended at
\* "await file.read"
AcceptUpload ==
    /\ issued + reading < MaxUploads
    /\ reading' = reading + 1
    /\ UNCHANGED <<pc, parse_vars, optimizer_vars, analyze_vars, resume_storage,
                   issued, analyze_calls, response>>

\* create_upload_file resumes: the optimizer is built, uuid4() gives a new id
\* and the optimizer is stored under it
StoreUpload ==
    /\ reading > 0
    /\ response.n < MaxRequests
    /\ reading' = reading - 1
    /\ issued' = issued + 1
    /\ resume_storage' = resume_storage \cup {issued + 1}
    /\ response' = Respond("upload", issued + 1, 200, "")
    /\ UNCHANGED <<pc, parse_vars, optimizer_vars, analyze_vars, analyze_calls>>

\* create_upload_file resumes and Document() raises on the contents: nothing
\* is stored
FailUpload ==
    /\ reading > 0
    /\ response.n < MaxRequests
    /\ reading' = reading - 1
    /\ response' = Respond("upload", 0, 500, "")
    /\ UNCHANGED <<pc, parse_vars, optimizer_vars, analyze_vars, resume_storage,
                   issued, analyze_calls>>

\* optimize_resume(file_id) for a stored id: the entry is popped and analyze()
\* called on it, which returns the report or raises
OptimizeStored ==
    /\ response.n < MaxRequests
    /\ \E file_id \in FileIds :
          /\ file_id \in resume_storage
          /\ resume_storage' = Pop(resume_storage, file_id)
          /\ analyze_calls' = Append(analyze_calls, file_id)
          /\ \E status \in {200, 500} :
                response' = Respond("optimize", file_id, status, "")
    /\ UNCHANGED <<pc, parse_vars, optimizer_vars, analyze_vars, issued, reading>>

\* optimize_resume(file_id) for an id that is no key: pop raises KeyError,
\* answered with 404
OptimizeMissing ==
    /\ response.n < MaxRequests
    /\ \E file_id \in FileIds :
          /\ file_id \notin resume_storage
          /\ response' = Respond("optimize", file_id, 404, "Resume has not been uploaded")
    /\ UNCHANGED <<pc, parse_vars, optimizer_vars, analyze_vars, resume_storage,
                   issued, reading, analyze_calls>>

ServerNext ==
    \/ RejectUpload \/ AcceptUpload \/ StoreUpload \/ FailUpload
    \/ OptimizeStored \/ OptimizeMissing

SpecServer == ServerInit /\ [][ServerNext]_vars

\* ------------------------------------------------- properties: match_parse
\* The line read by the last ReadLine step
NewLine == lines_read[Len(lines_read)]

\* A line holds a synonym of some catalog group
HasCatalogName(line) ==
    \E g \in 1..Len(SECTION_IDENTIFIERS) : AnyNameIn(SECTION_IDENTIFIERS[g], line)

\* A line holds something the contact or URL patterns match
HasExtractable(line) ==
    \/ FindUrls(line) # << >>
    \/ \E i \in 1..Len(CONTACT_KEYS) : FindAll(CONTACT_KEYS[i], line) # << >>

NoBlankLine == \A i \in 1..Len(lines_read) : ~IsBlank(lines_read[i])

OnlyHeaderWithEveryLine ==
    /\ Keys(sections) = <<"header">>
    /\ Lines(sections, "header") = lines_read

\* C1 as stated: a text without a blank line always comes back as the single
\* section "header" holding every line in order (is_resume true or false).
C1_Original ==
    (pc = "parsed" /\ NoBlankLine) => OnlyHeaderWithEveryLine

\* C1 amended: a text without a blank line comes back as the single section
\* "header" holding every line in order, provided its first line holds no
\* catalog synonym and, when is_resume is true, no line holds a contact field
\* or URL.
C1_Amended ==
    ( /\ pc = "parsed"
      /\ NoBlankLine
      /\ lines_read # << >> => ~HasCatalogName(lines_read[1])
      /\ is_resume => \A i \in 1..Len(lines_read) : ~HasExtractable(lines_read[i]) )
    => OnlyHeaderWithEveryLine

\* C1 witness: a returned resume parse of several non-blank lines, a later
\* one holding a catalog synonym, that satisfies the amended precondition.
C1_Witness ==
    /\ pc = "parsed" /\ is_resume /\ NoBlankLine
    /\ Len(lines_read) >= 2
    /\ ~HasCatalogName(lines_read[1])
    /\ HasCatalogName(lines_read[2])
    /\ \A i \in 1..Len(lines_read) : ~HasExtractable(lines_read[i])

\* C3: within one match_parse pass a canonical section is opened at most
\* once: once its key exists its list is never reset (it only grows), the
\* current section never switches to a name that is already a key, and a
\* line whose synonyms all belong to opened sections is stored as body text.
C3_OpenedOnce ==
    [][ /\ \A i \in 1..Len(sections) :
            /\ HasKey(sections', sections[i].name)
            /\ IsPrefix(sections[i].lines, Lines(sections', sections[i].name))
        /\ current_section' # current_section => ~HasKey(sections, current_section')
        /\ ( /\ lines_read' # lines_read
             /\ ~IsBlank(NewLine')
             /\ \A g \in 1..Len(SECTION_IDENTIFIERS) :
                    AnyNameIn(SECTION_IDENTIFIERS[g], NewLine')
                        => HasKey(sections, SECTION_IDENTIFIERS[g][1]) )
           => /\ Keys(sections') = Keys(sections)
              /\ current_section' = current_section
              /\ Len(Lines(sections', current_section))
                    = Len(Lines(sections, current_section)) + 1
        /\ \A i, j \in 1..Len(sections') :
            sections'[i].name = sections'[j].name => i = j ]_vars

\* C3 witness: after "experience" was opened, a line holding its synonym was
\* read after a blank line and stored in it as body text.
C3_Witness ==
    /\ HasKey(sections, "experience")
    /\ InSeq(<<"Experience">>, Lines(sections, "experience"))
    /\ Len(lines_read) >= 2
    /\ IsBlank(lines_read[Len(lines_read) - 1])
    /\ NewLine = <<"Experience">>

\* C4: contact extraction is monotonic: a key of contact_info keeps its value
\* over every later line.
C4_ContactMonotonic ==
    [][ \A k \in DOMAIN contact_info :
            k \in DOMAIN contact_info' /\ contact_info'[k] = contact_info[k] ]_vars

\* C4 witness: the e-mail was resolved and a later header line held another
\* e-mail address.
C4_Witness ==
    /\ is_resume
    /\ "email" \in DOMAIN contact_info
    /\ contact_info["email"] = "john@example.com"
    /\ current_section = "header"
    /\ NewLine = <<"Mail", "jd@mail.org">>

\* The documented scenario has been parsed with extraction enabled
ScenarioParsed == is_resume /\ lines_read = ScenarioLines

\* A ReadLine step in the header on a line that is one token, which the step
\* records as a contact field
SoleContactStep ==
    /\ is_resume /\ lines_read' # lines_read
    /\ current_section = "header"
    /\ Len(NewLine') = 1
    /\ \E k \in DOMAIN contact_info' :
        k \notin DOMAIN contact_info /\ contact_info'[k] = NewLine'[1]

\* C6 as stated: the scenario yields contact_info {email} and sections
\* {"header": ["John Doe"], "experience": [...]}, and a header line that is
\* solely an extracted contact field adds no entry to the header.
C6_Original ==
    [][ /\ ScenarioParsed' =>
            /\ contact_info' = [email |-> "john@example.com"]
            /\ sections' =
                << [name |-> "header", lines |-> << <<"John Doe">> >>],
                   [name |-> "experience",
                    lines |-> << <<"Built distributed systems using queues">> >>] >>
        /\ SoleContactStep => sections' = sections ]_vars

\* C6 amended: the scenario yields contact_info {email} and sections
\* {"header": ["John Doe", ""], "experience": [...]}; a header line that is
\* solely an extracted contact field adds the empty string to the header.
C6_Amended ==
    [][ /\ ScenarioParsed' =>
            /\ contact_info' = [email |-> "john@example.com"]
            /\ sections' =
                << [name |-> "header", lines |-> << <<"John Doe">>, << >> >>],
                   [name |-> "experience",
                    lines |-> << <<"Built distributed systems using queues">> >>] >>
        /\ SoleContactStep => sections' = AppendLine(sections, "header", << >>) ]_vars

\* C6 witness: the scenario text has been read to its end.
C6_Witness == ScenarioParsed /\ pc = "parsed"

\* C7 as stated: contact_info gains a value only on a line processed while
\* the current section is "header".
C7_Original ==
    [][ contact_info' # contact_info => current_section = "header" ]_vars

\* C7 amended: contact_info gains a value only on a line processed while the
\* current section is "header" or "about"; a line of any other section never
\* adds a contact_info entry.
C7_Amended ==
    [][ (contact_info' # contact_info \/ missing_contact_info' # missing_contact_info)
        => current_section \in {"header", "about"} ]_vars

\* C7 witness: a contact field was recorded from a line of "about".
C7_Witness ==
    /\ is_resume
    /\ current_section = "about"
    /\ Lines(sections, "header") = << >>
    /\ DOMAIN contact_info # {}

\* A ReadLine step that appends a body line to a section other than header
\* and about, with extraction enabled
OtherSectionStep ==
    /\ is_resume /\ lines_read' # lines_read
    /\ ~IsBlank(NewLine')
    /\ Keys(sections') = Keys(sections)
    /\ current_section \notin {"header", "about"}

AppendedUnmodified ==
    /\ sections' = AppendLine(sections, current_section, NewLine')
    /\ urls' = urls

\* C8 as stated: a candidate line appended to a section other than header
\* and about is appended unmodified and adds nothing to the URL list.
C8_Original ==
    [][ OtherSectionStep => AppendedUnmodified ]_vars

\* C8 amended: only the contact step is limited to header and about; URL
\* extraction runs on every candidate line.  A line appended to another
\* section leaves contact_info alone, and is appended unmodified with the URL
\* list unchanged exactly when it holds no URL that is not yet recorded.
C8_Amended ==
    [][ OtherSectionStep =>
        /\ contact_info' = contact_info
        /\ missing_contact_info' = missing_contact_info
        /\ LET found == FindUrls(NewLine')
           IN  IF \A i \in 1..Len(found) : InSeq(found[i], urls)
               THEN AppendedUnmodified
               ELSE /\ urls' # urls
                    /\ IsPrefix(urls, urls')
                    /\ sections' # AppendLine(sections, current_section, NewLine') ]_vars

\* C8 witness: a URL was recorded from, and stripped out of, a line of
\* "experience".
C8_Witness ==
    /\ is_resume
    /\ current_section = "experience"
    /\ NewLine = <<"example.com">>
    /\ urls = <<"example.com">>
    /\ Lines(sections, "experience") = << << >> >>

\* The strings recorded in contact_info or the URL list
Recorded == {contact_info[k] : k \in DOMAIN contact_info} \cup {urls[i] : i \in 1..Len(urls)}

\* C9: with extraction enabled, no recorded contact value or URL occurs in
\* any line stored in any section.
C9_NoRecordedInSections ==
    is_resume =>
        \A s \in Recorded : \A i \in 1..Len(sections) :
            \A j \in 1..Len(sections[i].lines) :
                \A t \in 1..Len(sections[i].lines[j]) :
                    ~Occurs(s, sections[i].lines[j][t])

\* A sequence without duplicates
NoDuplicates(seq) == \A i, j \in 1..Len(seq) : seq[i] = seq[j] => i = j

\* C14: the URL list never holds a duplicate nor an entry the e-mail pattern
\* matches, and a processed line only appends to it: the entries appended are
\* URLs of that line not recorded before, in the order of their first
\* occurrence in the line; recorded URLs keep their places.
C14_UrlList ==
    [][ /\ NoDuplicates(urls')
        /\ \A i \in 1..Len(urls') : ~MatchesEmail(urls'[i])
        /\ IsPrefix(urls, urls')
        /\ \A i \in (Len(urls) + 1)..Len(urls') :
              /\ lines_read' # lines_read
              /\ InSeq(urls'[i], FindUrls(lines_read'[Len(lines_read')]))
              /\ ~InSeq(urls'[i], urls)
              /\ \A j \in (i + 1)..Len(urls') :
                    IndexOf(FindUrls(lines_read'[Len(lines_read')]), urls'[i])
                      < IndexOf(FindUrls(lines_read'[Len(lines_read')]), urls'[j])
      ]_vars

\* C14 witness: a line with two URLs, then a line repeating the second and
\* a line repeating the first, leave the list as first seen.
C14_Witness ==
    /\ is_resume
    /\ lines_read = << <<"example.com", "mail.org">>, <<"Mail", "jd@mail.org">>,
                       <<"example.com">> >>
    /\ urls = <<"example.com", "mail.org">>

\* C15: a blank input line changes no section; a line consumed as a heading
\* opens an empty section and is appended nowhere; every other line adds
\* exactly one entry, at the end of the section that is current when it is
\* read (the line itself when nothing is extracted), and no stored entry is
\* moved or removed.
C15_LineConservation ==
    [][ lines_read' # lines_read =>
          LET line == lines_read'[Len(lines_read')]
          IN  IF IsBlank(line)
              THEN sections' = sections /\ current_section' = current_section
              ELSE IF Keys(sections') # Keys(sections)
              THEN /\ ~HasKey(sections, current_section')
                   /\ sections' = Append(sections,
                                         [name |-> current_section', lines |-> << >>])
              ELSE /\ current_section' = current_section
                   /\ \A i \in 1..Len(sections) :
                         IF sections[i].name = current_section
                         THEN /\ Len(sections'[i].lines) = Len(sections[i].lines) + 1
                              /\ IsPrefix(sections[i].lines, sections'[i].lines)
                              /\ ~is_resume =>
                                    sections'[i].lines[Len(sections'[i].lines)] = line
                         ELSE sections'[i] = sections[i]
      ]_vars

\* C15 witness: a header line, a blank line, a heading and a body line have
\* been read; only the two content lines are stored, each in its section.
C15_Witness ==
    /\ is_resume
    /\ lines_read = << <<"John Doe">>, << >>, <<"Experience">>,
                       <<"Built distributed systems using queues">> >>
    /\ sections = << [name |-> "header", lines |-> << <<"John Doe">> >>],
                     [name |-> "experience",
                      lines |-> << <<"Built distributed systems using queues">> >>] >>

\* The catalog groups not yet opened of which a line holds a synonym
UnusedGroups(line) ==
    {g \in 1..Len(SECTION_IDENTIFIERS) :
        /\ ~HasKey(sections, SECTION_IDENTIFIERS[g][1])
        /\ AnyNameIn(SECTION_IDENTIFIERS[g], line)}

\* What the implicit header boundary does with a non-blank line read while
\* the current section is "header": it is tested as a heading exactly when a
\* contact field is resolved already and none is resolved on the line; a
\* tested line holding a synonym of an unused group opens the first such
\* group and is not appended; any other line stays in the header.
HeaderBoundaryStep ==
    LET line == lines_read'[Len(lines_read')]
        tested == DOMAIN contact_info # {} /\ contact_info' = contact_info
    IN  IF tested /\ UnusedGroups(line) # {}
        THEN LET g == CHOOSE g \in UnusedGroups(line) :
                          \A h \in UnusedGroups(line) : g <= h
             IN  /\ current_section' = SECTION_IDENTIFIERS[g][1]
                 /\ sections' = Append(sections,
                                       [name |-> current_section', lines |-> << >>])
        ELSE /\ current_section' = "header"
             /\ Keys(sections') = Keys(sections)
             /\ Len(Lines(sections', "header")) = Len(Lines(sections, "header")) + 1

\* C16 as stated: the rule holds for every header line not preceded by a
\* blank line, the first line of the text included.
C16_Original ==
    [][ ( /\ lines_read' # lines_read
          /\ is_resume
          /\ current_section = "header"
          /\ ~IsBlank(lines_read'[Len(lines_read')])
          /\ (lines_read = << >> \/ ~IsBlank(lines_read[Len(lines_read)])) )
        => HeaderBoundaryStep ]_vars

\* C16 amended: the rule holds for every header line that follows a
\* non-blank line; the first line of the text is tested as a heading like a
\* line after a blank line.
C16_Amended ==
    [][ ( /\ lines_read' # lines_read
          /\ is_resume
          /\ current_section = "header"
          /\ ~IsBlank(lines_read'[Len(lines_read')])
          /\ lines_read # << >>
          /\ ~IsBlank(lines_read[Len(lines_read)]) )
        => HeaderBoundaryStep ]_vars

\* C16 witness: after a name and an e-mail line, a heading without a blank
\* line before it has opened its section.
C16_Witness ==
    /\ is_resume
    /\ lines_read = << <<"John Doe">>, <<"john@example.com">>, <<"Experience">> >>
    /\ current_section = "experience"
    /\ sections = << [name |-> "header", lines |-> << <<"John Doe">>, << >> >>],
                     [name |-> "experience", lines |-> << >>] >>

\* C23: every key of the mapping match_parse builds is "header" or the first
\* name of a catalog group, so it has a weight in SECTION_WEIGHTS; "header"
\* is always present and is the first key; no key occurs twice.
C23_CanonicalKeys ==
    /\ Len(sections) >= 1
    /\ sections[1].name = "header"
    /\ \A i \in 1..Len(sections) :
          /\ \/ sections[i].name = "header"
             \/ \E g \in 1..Len(SECTION_IDENTIFIERS) :
                    sections[i].name = SECTION_IDENTIFIERS[g][1]
          /\ sections[i].name \in DOMAIN SECTION_WEIGHTS
    /\ NoDuplicates(Keys(sections))

\* C23 witness: two headings that hold synonyms, not first names, have opened
\* the sections of their groups.
C23_Witness ==
    /\ pc = "parsed"
    /\ lines_read = << <<"Summary">>, << >>, <<"Project summary">> >>
    /\ Keys(sections) = <<"header", "about", "experience">>

\* C24: with extraction disabled a line read leaves contact_info, the
\* missing-contact list and the URL list as they were, and a body line is
\* appended as it was read, whatever it holds.
C24_NoExtraction ==
    [][ (lines_read' # lines_read /\ ~is_resume) =>
          LET line == lines_read'[Len(lines_read')]
          IN  /\ contact_info' = contact_info
              /\ missing_contact_info' = missing_contact_info
              /\ urls' = urls
              /\ (~IsBlank(line) /\ Keys(sections') = Keys(sections)) =>
                    Lines(sections', current_section)
                      = Append(Lines(sections, current_section), line)
      ]_vars

\* C24 witness: on an optimizer that holds an e-mail address and a URL, a
\* text with another e-mail address, a phone number and that URL has been
\* segmented without extraction.
C24_Witness ==
    /\ ~is_resume
    /\ pc = "parsed"
    /\ lines_read = << <<"Mail", "jd@mail.org">>, <<"555-123-4567">>, <<"example.com">> >>
    /\ sections = << [name |-> "header", lines |-> lines_read] >>
    /\ DOMAIN contact_info = {"email"}
    /\ contact_info["email"] = "john@example.com"
    /\ missing_contact_info = <<"phone">>
    /\ urls = <<"example.com">>

\* ----------------------------------------------------- properties: analyze
\* The comparator has been built
Compared == pc \notin {"segment", "compare"}

\* C2: analyze never ends with a division error; a zero denominator is
\* treated as score 0.
C2_NoZeroDivision == pc # "failed" /\ error # "ZeroDivisionError"

\* C5: the candidate comparison string is the join of every candidate section
\* but "header", also when "header" is the only section, and the target
\* comparison string is the join of every target section.
C5_HeaderExcluded ==
    Compared =>
        /\ resume_compare = JoinSections(resume_sections, Tail(Keys(resume_sections)))
        /\ job_compare = JoinSections(job_sections, Keys(job_sections))

\* C10: whenever analyze returns, match_percentage >= 0, and it is exactly 0
\* when matched_total and missed_total are both 0.
C10_PercentageNonNegative ==
    pc = "done" =>
        /\ match_percentage.n >= 0 /\ match_percentage.d > 0
        /\ (SumFrac(matched_weighted).n = 0 /\ SumFrac(missed_weighted).n = 0)
            => match_percentage.n = 0

\* C10 witness: analyze returned after weighting keywords of score 0, both
\* totals being 0.
C10_Witness ==
    /\ pc = "done"
    /\ missed_weighted # << >>
    /\ SumFrac(matched_weighted).n = 0 /\ SumFrac(missed_weighted).n = 0
    /\ match_percentage.n = 0

\* The terms of a keyphrase list or keyword dict
TermsOf(d) == {d[i].k : i \in 1..Len(d)}

\* C11: when the candidate and target keyphrase lists share no term and
\* analyze returns, matched_total is 0, match_percentage is 0, and every key
\* of the returned underused mapping is a key of missed_weighted.
C11_NoOverlap ==
    (pc = "done" /\ TermsOf(resume_keywords) \cap TermsOf(job_keywords) = {}) =>
        /\ SumFrac(matched_weighted) = FracOf(0)
        /\ match_percentage = FracOf(0)
        /\ TermsOf(underused) \subseteq TermsOf(missed_weighted)

\* C11 witness: analyze returned a deficit for a target term the candidate
\* list does not hold, the two lists sharing no term.
C11_Witness ==
    /\ pc = "done"
    /\ resume_keywords # << >>
    /\ TermsOf(resume_keywords) \cap TermsOf(job_keywords) = {}
    /\ underused # << >>
    /\ SumFrac(missed_weighted).n > 0

\* The dict analyze hands to to_count
CountedDict ==
    IF ~FracLess(match_percentage, MISSED_THRESHOLD)
    THEN matched_weighted ELSE missed_weighted

\* round(job count - resume count * ratio) of a keyword, for a resume string
\* that holds a word
Deficit(keyword) ==
    Round(CountIn(keyword, job_compare) * WordsIn(resume_compare)
            - CountIn(keyword, resume_compare) * WordsIn(job_compare),
          WordsIn(resume_compare))

\* C12: whenever to_count returns, every value of its result is an integer
\* > 0, namely the keyword's rounded deficit, and a keyword whose rounded
\* deficit is <= 0 is absent from the result.
C12_PositiveDeficits ==
    pc = "done" =>
        /\ \A i \in 1..Len(underused) :
              /\ underused[i].v \in Nat /\ underused[i].v > 0
              /\ underused[i].k \in TermsOf(CountedDict)
              /\ underused[i].v = Deficit(underused[i].k)
        /\ \A i \in 1..Len(CountedDict) :
              Deficit(CountedDict[i].k) <= 0 => CountedDict[i].k \notin TermsOf(underused)

\* C12 witness: to_count returned a deficit for one keyword and left out
\* another whose rounded deficit is not positive.
C12_Witness ==
    /\ pc = "done"
    /\ underused # << >>
    /\ \E i \in 1..Len(CountedDict) :
          Deficit(CountedDict[i].k) <= 0 /\ CountedDict[i].k \notin TermsOf(underused)

\* apply_weights has returned for both dicts
Weighted == pc \in {"score", "report", "done"}

\* The target sections with content
JobNonEmpty == {i \in 1..Len(job_sections) : Len(job_sections[i].lines) > 0}

\* Every section with content has weight w
EqualWeights(w) == \A i \in JobNonEmpty : SECTION_WEIGHTS[job_sections[i].name] = w

\* The keyword occurs exactly once, in exactly one section
OccursOnce(keyword) ==
    \E i \in JobNonEmpty :
        /\ CountIn(keyword, job_sections[i].lines) = 1
        /\ \A j \in JobNonEmpty \ {i} : CountIn(keyword, job_sections[j].lines) = 0

\* The number of sections with content that hold some keyword of the call
AppliedSections(keyword_values) ==
    Cardinality({i \in JobNonEmpty :
        \E n \in 1..Len(keyword_values) :
            CountIn(keyword_values[n].k, job_sections[i].lines) > 0})

\* C13 as stated: with every non-empty section of weight w, a keyword of
\* value v that occurs once in one section is weighted (v + w*v) / w,
\* whatever other keywords the call holds.
C13_Original ==
    Weighted =>
        \A w \in 1..4 : EqualWeights(w) =>
            /\ \A i \in 1..Len(matches) : OccursOnce(matches[i].k) =>
                  matched_weighted[i].v = Frac(matches[i].v + w * matches[i].v, w)
            /\ \A i \in 1..Len(missed_keywords) : OccursOnce(missed_keywords[i].k) =>
                  missed_weighted[i].v
                    = Frac(missed_keywords[i].v + w * missed_keywords[i].v, w)

\* C13 amended: the divisor is the total weight, w times the number of
\* non-empty sections that hold some keyword of the call; the value is
\* (v + w*v) / w when that number is 1.
C13_Amended ==
    Weighted =>
        \A w \in 1..4 : EqualWeights(w) =>
            /\ \A i \in 1..Len(matches) : OccursOnce(matches[i].k) =>
                  matched_weighted[i].v
                    = Frac(matches[i].v + w * matches[i].v, w * AppliedSections(matches))
            /\ \A i \in 1..Len(missed_keywords) : OccursOnce(missed_keywords[i].k) =>
                  missed_weighted[i].v
                    = Frac(missed_keywords[i].v + w * missed_keywords[i].v,
                           w * AppliedSections(missed_keywords))

\* C13 witness: two sections of weight 1 each hold one of two missed
\* keywords once, and the keyword of value 2 is weighted (2 + 2) / 2.
C13_Witness ==
    /\ Weighted
    /\ EqualWeights(1)
    /\ AppliedSections(missed_keywords) = 2
    /\ \E i \in 1..Len(missed_keywords) :
          /\ OccursOnce(missed_keywords[i].k)
          /\ missed_keywords[i].v = 2
          /\ missed_weighted[i].v = FracOf(2)

\* C17: after compare(), match_points equals the sum of the values of
\* matches, also when a term is repeated in the keyphrase lists.
C17_PointsEqualSum == Compared => match_points = SumScores(matches)

\* The positions of a keyphrase list that hold a term, in order
Positions(list, term) ==
    SelectSeq([i \in 1..Len(list) |-> i], LAMBDA i : list[i].k = term)

\* The job position the resume keyphrase at position i is paired with: the
\* n-th occurrence of a term in the resume list goes with the n-th occurrence
\* in the job list; 0 when the job list has fewer occurrences
PairOf(i) ==
    LET P == Positions(job_keywords, resume_keywords[i].k)
        n == Cardinality({j \in 1..i : resume_keywords[j].k = resume_keywords[i].k})
    IN  IF n <= Len(P) THEN P[n] ELSE 0

\* The resume positions that are paired
Paired == {i \in 1..Len(resume_keywords) : PairOf(i) # 0}

PairValue(i) == resume_keywords[i].v + job_keywords[PairOf(i)].v

RECURSIVE PairSum(_)
PairSum(i) ==
    IF i = 0 THEN 0
    ELSE PairSum(i - 1) + IF i \in Paired THEN PairValue(i) ELSE 0

\* C18: in compare() each job position is consumed by at most one resume
\* keyphrase, the n-th resume occurrence of a term taking the n-th job
\* occurrence, the first not yet consumed; a resume keyphrase whose job
\* occurrences are all consumed makes no match; every match made counts in
\* match_points, and matches holds for each matched term the combined score
\* of its last match.
C18_Consumption ==
    Compared =>
        /\ Len(job_keyword_text) = Len(job_keywords)
        /\ \A p \in 1..Len(job_keywords) :
              job_keyword_text[p] =
                  IF \E i \in Paired : PairOf(i) = p THEN "False" ELSE job_keywords[p].k
        /\ match_points = PairSum(Len(resume_keywords))
        /\ TermsOf(matches) = {resume_keywords[i].k : i \in Paired}
        /\ \A n \in 1..Len(matches) :
              \E i \in Paired :
                  /\ resume_keywords[i].k = matches[n].k
                  /\ matches[n].v = PairValue(i)
                  /\ \A j \in Paired : resume_keywords[j].k = matches[n].k => j <= i

\* C18 witness: a term repeated in the resume list met a single job
\* occurrence: one match, the position consumed, the second resume
\* keyphrase unmatched.
C18_Witness ==
    /\ Compared
    /\ resume_keywords = << [k |-> "python", v |-> 1], [k |-> "python", v |-> 1] >>
    /\ job_keywords = << [k |-> "sql", v |-> 1], [k |-> "python", v |-> 2] >>
    /\ job_keyword_text = <<"sql", "False">>
    /\ match_points = 3
    /\ matches = << [k |-> "python", v |-> 3] >>

\* C19: after compare(), no term is both matched and missed, the matched and
\* the missed terms together are exactly the terms of the job keyphrase list,
\* and each missed keyword carries the score of the job keyphrase holding it
\* (the last one when the term is repeated).
C19_MatchedOrMissed ==
    Compared =>
        /\ TermsOf(matches) \cap TermsOf(missed_keywords) = {}
        /\ TermsOf(matches) \cup TermsOf(missed_keywords) = TermsOf(job_keywords)
        /\ NoDuplicates([n \in 1..Len(missed_keywords) |-> missed_keywords[n].k])
        /\ \A n \in 1..Len(missed_keywords) :
              LET P == Positions(job_keywords, missed_keywords[n].k)
              IN  missed_keywords[n].v = job_keywords[P[Len(P)]].v

\* C19 witness: of two job terms one is matched and the other missed.
C19_Witness ==
    /\ Compared
    /\ TermsOf(matches) = {"python"}
    /\ missed_keywords = << [k |-> "sql", v |-> 2] >>

\* analyze has computed the score
Scored == pc \in {"report", "done"}

\* C20: match_percentage is matched_total / missed_total when missed_total >
\* matched_total, else matched_total / (matched_total + missed_total) when
\* that sum is > 0, else 0; with non-negative keyword scores it lies within
\* 0 and 1 inclusive.
C20_PercentageFormula ==
    Scored =>
        LET matched_total == SumFrac(matched_weighted)
            missed_total == SumFrac(missed_weighted)
            net == FracAdd(missed_total, matched_total)
            \* match_percentage * y = x, for y > 0
            IsQuotient(x, y) ==
                match_percentage.n * y.n * x.d = x.n * match_percentage.d * y.d
        IN  /\ match_percentage.d > 0
            /\ IF missed_total.n * matched_total.d > matched_total.n * missed_total.d
               THEN IsQuotient(matched_total, missed_total)
               ELSE IF net.n > 0
                    THEN IsQuotient(matched_total, net)
                    ELSE match_percentage.n = 0
            /\ 0 <= match_percentage.n
            /\ match_percentage.n <= match_percentage.d

\* C20 witness: both branches' inputs are positive and the missed total is
\* the larger: the score is strictly between 0 and 1.
C20_Witness ==
    /\ pc = "done"
    /\ SumFrac(matched_weighted).n > 0
    /\ FracLess(SumFrac(matched_weighted), SumFrac(missed_weighted))
    /\ 0 < match_percentage.n
    /\ match_percentage.n < match_percentage.d

\* The entries of keyword_counts that the returned mapping leaves out
Omitted ==
    {j \in 1..Len(keyword_counts) :
        \A i \in 1..Len(underused) : underused[i].k # keyword_counts[j].k}

\* C21: the returned underused mapping is in non-increasing order of value,
\* holds at most MAX_UNDERUSED entries, each an entry of what to_count
\* returned, as many as there are up to that limit, and no entry left out has
\* a larger value than a returned one.
C21_TopUnderused ==
    pc \in {"sorted", "done"} =>
        /\ \A i, j \in 1..Len(underused) : i < j => underused[i].v >= underused[j].v
        /\ Len(underused) <= 20
        /\ Len(underused) = IF Len(keyword_counts) < 20 THEN Len(keyword_counts) ELSE 20
        /\ NoDuplicates([i \in 1..Len(underused) |-> underused[i].k])
        /\ \A i \in 1..Len(underused) :
              \E j \in 1..Len(keyword_counts) : keyword_counts[j] = underused[i]
        /\ \A j \in Omitted : \A i \in 1..Len(underused) :
              keyword_counts[j].v <= underused[i].v

\* C21 witness: of 22 keywords in no order 20 are returned, and one left out
\* has a smaller deficit than a returned one.
C21_Witness ==
    /\ pc = "sorted"
    /\ Len(keyword_counts) = 22
    /\ keyword_counts[1].v < keyword_counts[2].v
    /\ Len(underused) = 20
    /\ \E j \in Omitted : keyword_counts[j].v < underused[1].v

\* analyze has taken the parsing results of the candidate's segmentation
Segmented == pc # "segment"

\* The canonical names of the section catalog
CanonicalNames == {SECTION_IDENTIFIERS[g][1] : g \in 1..Len(SECTION_IDENTIFIERS)}

\* The keys of found_sections and of missed_sections
FoundSections ==
    {parsing_results.found_sections[i] : i \in 1..Len(parsing_results.found_sections)}

MissedSections ==
    {parsing_results.missed_sections[i] : i \in 1..Len(parsing_results.missed_sections)}

RECURSIVE WeightOf(_)
\* The sum of the weights of a set of section names
WeightOf(names) ==
    IF names = {} THEN 0
    ELSE LET c == CHOOSE c \in names : TRUE
         IN  SECTION_WEIGHTS[c] + WeightOf(names \ {c})

\* C22: found_sections and missed_sections are disjoint and together hold
\* exactly the canonical names, never "header"; a canonical section is found
\* iff its list in the segmentation is not empty; max_score is the sum of all
\* canonical weights, parsing_score the sum of the found sections' weights,
\* and 0 <= parsing_score <= max_score.
C22_ParsingResults ==
    Segmented =>
        /\ FoundSections \cap MissedSections = {}
        /\ FoundSections \cup MissedSections = CanonicalNames
        /\ "header" \notin FoundSections \cup MissedSections
        /\ \A c \in CanonicalNames :
              c \in FoundSections
                <=> (HasKey(resume_sections, c) /\ Len(Lines(resume_sections, c)) > 0)
        /\ parsing_results.max_score = WeightOf(CanonicalNames)
        /\ parsing_results.parsing_score = WeightOf(FoundSections)
        /\ 0 <= parsing_results.parsing_score
        /\ parsing_results.parsing_score <= parsing_results.max_score

\* C22 witness: of three sections opened by a heading the one without lines
\* is missed and the two with lines are found.
C22_Witness ==
    /\ Segmented
    /\ HasKey(resume_sections, "education")
    /\ Lines(resume_sections, "education") = << >>
    /\ FoundSections = {"about", "experience"}
    /\ MissedSections = {"education", "qualification"}
    /\ parsing_results.parsing_score = 6

\* C25: over any interleaving of upload and optimize requests no stored
\* resume is handed to analyze twice, and a resume handed to analyze is no
\* longer stored; an optimize request for an id that is not stored, analyzed
\* before or never uploaded, is answered 404 and changes nothing; one for a
\* stored id removes the entry and hands it to analyze; an upload answered
\* 403 leaves resume_storage as it was.
C25_UploadOptimize ==
    [][ /\ NoDuplicates(analyze_calls')
        /\ \A i \in 1..Len(analyze_calls') : analyze_calls'[i] \notin resume_storage'
        /\ response'.n # response.n =>
              /\ (response'.request = "optimize"
                    /\ response'.file_id \notin resume_storage) =>
                    /\ response'.status = 404
                    /\ resume_storage' = resume_storage
                    /\ analyze_calls' = analyze_calls
              /\ (response'.request = "optimize"
                    /\ response'.file_id \in resume_storage) =>
                    /\ response'.status # 404
                    /\ resume_storage' = resume_storage \ {response'.file_id}
                    /\ analyze_calls' = Append(analyze_calls, response'.file_id)
              /\ response'.status = 403 => resume_storage' = resume_storage
      ]_vars

\* C25 witness: a second optimize request for an id whose resume was
\* analyzed is answered 404 while another upload is stored and one is in
\* flight.
C25_Witness ==
    /\ response.request = "optimize"
    /\ response.status = 404
    /\ \E i \in 1..Len(analyze_calls) : analyze_calls[i] = response.file_id
    /\ resume_storage # {}
    /\ reading > 0
====
